---- MODULE Spec2Model ----
(***************************************************************************)
(* Model of py-ninja's device layer (ninja/devices.py) and of its          *)
(* Temperature value type (ninja/units.py).                                *)
(*                                                                         *)
(* Decimal quantities are fixed-point integers counting hundredths         *)
(* (273.15 is 27315); a product or quotient that does not fit the last     *)
(* place is rounded half-even, as the decimal context rounds.              *)
(***************************************************************************)
EXTENDS Integers, Sequences, FiniteSets, TLC

VARIABLES
    temps,          \* Temperature objects: object name -> stored Kelvin value k
    tlast,          \* the last Temperature operation: inputs, state before, outcome
    tsteps,         \* number of Temperature operations performed
    variant,        \* class of the device: "Device", "TemperatureSensor", ...
    data,           \* Device.data
    last_read,      \* Device.last_read (seconds since the epoch, or None)
    last_heartbeat, \* Device.last_heartbeat (clock reading, or None)
    callbacks,      \* Device._callbacks: event kind -> sequence of listeners
    last_color,     \* RGBLED._last_color (Unset until first assigned)
    led,            \* the colour the hub holds for the LED (its DA value)
    now,            \* wall clock, advanced by every poll
    origin,         \* poll from which data and last_read were each taken
    offColor,       \* colour a lit LED, known to the device, had when turned off
    dlast           \* the last Device operation: inputs, state before, outcome

vars == <<temps, tlast, tsteps, variant, data, last_read, last_heartbeat,
          callbacks, last_color, led, now, origin, offColor, dlast>>

tempVars == <<temps, tlast, tsteps>>
devVars == <<variant, data, last_read, last_heartbeat, callbacks, last_color,
             led, now, origin, offColor, dlast>>

(***************************************************************************)
(* Bounds                                                                  *)
(***************************************************************************)
MaxOps == 2
MaxClock == 2
MaxListeners == 1
MaxKelvin == 50000

(***************************************************************************)
(* Decimal arithmetic                                                      *)
(***************************************************************************)
\* Number of units in 1: values carry two fractional digits.
Unit == 100

\* q + r/d (0 <= r < d) rounded to the nearest integer, ties to the even one.
RoundAt(q, r, d) ==
    IF 2 * r < d THEN q
    ELSE IF 2 * r > d THEN q + 1
    ELSE IF q % 2 = 0 THEN q ELSE q + 1

\* n / d rounded half-even (d # 0).
RoundHalfEven(n, d) ==
    LET nn == IF d < 0 THEN -n ELSE n
        dd == IF d < 0 THEN -d ELSE d
    IN  RoundAt(nn \div dd, nn % dd, dd)

\* x * y, the product taken in two parts to stay within machine integers.
DMul(x, y) ==
    LET yq == y \div Unit
        low == x * (y % Unit)
    IN  RoundAt(x * yq + (low \div Unit), low % Unit, Unit)

DDiv(x, y) == RoundHalfEven(x * Unit, y)

(***************************************************************************)
(* Temperature                                                             *)
(***************************************************************************)
\* unit -> <<scale, shift applied to k, shift applied to the product>>
equations ==
    [c |-> <<100, 0, -27315>>, f |-> <<180, -27315, 3200>>, r |-> <<180, 0, 0>>]

UnitNames == DOMAIN equations
AttrNames == {"k"} \cup UnitNames

\* __getattr__: a derived unit is computed from k on every read.
GetAttr(k, name) ==
    IF name \in UnitNames
    THEN LET eq == equations[name] IN DMul(k + eq[2], eq[1]) + eq[3]
    ELSE k

KelvinOf_wrongOrder(name, value) ==
    IF name \in UnitNames
    THEN LET eq == equations[name] IN DDiv(value - eq[3] - eq[2], eq[1])
    ELSE value

\* The Kelvin value a write of `value` to attribute `name` asks for.
KelvinOf(name, value) ==
    IF name \in UnitNames
    THEN LET eq == equations[name] IN DDiv(value - eq[3], eq[1]) - eq[2]
    ELSE value

SetAttr_keep(k, name, value) ==
    LET nk == KelvinOf(name, value)
    IN  IF nk < 0 THEN [k |-> k, err |-> "ValueError"]
        ELSE [k |-> nk, err |-> "none"]

SetAttr_noclamp(k, name, value) ==
    LET nk == KelvinOf(name, value)
    IN  IF nk < 0 THEN [k |-> nk, err |-> "ValueError"]
        ELSE [k |-> nk, err |-> "none"]

\* __setattr__: store, then reset k to 0 and raise if it went below 0.
SetAttr(k, name, value) ==
    LET nk == KelvinOf(name, value)
    IN  IF nk < 0 THEN [k |-> 0, err |-> "ValueError"]
        ELSE [k |-> nk, err |-> "none"]

NoKw == [name |-> "k", value |-> 0]

\* __init__(k, **kwargs): self.k = k, then the one alternate unit given.
\* kw.name = "k" stands for no keyword.  ok is FALSE when no object results.
NewTemperature(k0, kw) ==
    LET s1 == SetAttr(0, "k", k0)
    IN  IF s1.err # "none" THEN [ok |-> FALSE, k |-> 0, err |-> s1.err, raw |-> k0]
        ELSE IF kw.name \in UnitNames
        THEN LET s2 == SetAttr(s1.k, kw.name, kw.value)
             IN  [ok |-> s2.err = "none", k |-> s2.k, err |-> s2.err,
                  raw |-> KelvinOf(kw.name, kw.value)]
        ELSE [ok |-> TRUE, k |-> s1.k, err |-> "none", raw |-> k0]

\* if hasattr(other, 'k'): other = other.k
OtherK(other) == IF other.isTemp THEN other.k ELSE other.n

Arith_swapped(op, k, o) ==
    CASE op = "add" -> [err |-> "none", v |-> k + o]
      [] op = "sub" -> [err |-> "none", v |-> o - k]
      [] op = "mul" -> [err |-> "none", v |-> DMul(k, o)]
      [] op = "div" -> IF o = 0
                       THEN [err |-> IF k = 0 THEN "InvalidOperation"
                                     ELSE "DivisionByZero", v |-> 0]
                       ELSE [err |-> "none", v |-> DDiv(k, o)]

\* self.k <op> other on decimals; a zero divisor raises before any store.
Arith(op, k, o) ==
    CASE op = "add" -> [err |-> "none", v |-> k + o]
      [] op = "sub" -> [err |-> "none", v |-> k - o]
      [] op = "mul" -> [err |-> "none", v |-> DMul(k, o)]
      [] op = "div" -> IF o = 0
                       THEN [err |-> IF k = 0 THEN "InvalidOperation"
                                     ELSE "DivisionByZero", v |-> 0]
                       ELSE [err |-> "none", v |-> DDiv(k, o)]

\* __add__, __sub__, __mul__, __div__: Temperature(self.k <op> other)
BinOp(op, k, other) ==
    LET a == Arith(op, k, OtherK(other))
    IN  IF a.err # "none" THEN [ok |-> FALSE, k |-> 0, err |-> a.err, raw |-> 0]
        ELSE NewTemperature(a.v, NoKw)

\* __iadd__, __isub__, __imul__, __idiv__: self.k = self.k <op> other
InPlaceOp(op, k, other) ==
    LET a == Arith(op, k, OtherK(other))
    IN  IF a.err # "none" THEN [k |-> k, err |-> a.err, raw |-> 0]
        ELSE LET s == SetAttr(k, "k", a.v)
             IN  [k |-> s.k, err |-> s.err, raw |-> a.v]

(***************************************************************************)
(* Temperature operations                                                  *)
(***************************************************************************)
Objs == {"t1", "t2"}
BinOps == {"add", "sub", "mul", "div"}

\* Bare numbers handed to the operations, in hundredths.
Numbers == {-30000, 0, 3206, 21200}

\* Keyword arguments of a construction: none, or one alternate unit.
Kws == {NoKw} \cup [name : UnitNames, value : Numbers]

\* Constructor calls: Temperature(k0) or Temperature(<unit>=value).
CtorArgs == [k0 : Numbers, kw : {NoKw}] \cup [k0 : {0}, kw : Kws \ {NoKw}]

\* Right-hand operands: another Temperature or a bare number.
Others == [isTemp : {TRUE}, k : {temps[j] : j \in Objs}, n : {0}]
            \cup [isTemp : {FALSE}, k : {0}, n : Numbers]

NoOther == [isTemp |-> FALSE, k |-> 0, n |-> 0]

\* The Temperatures a program starts from: Temperature(), Temperature(k=40)
\* and Temperature(f=212).
InitTemps ==
    {NewTemperature(0, NoKw).k, NewTemperature(4000, NoKw).k,
     NewTemperature(0, [name |-> "f", value |-> 21200]).k}

TInit ==
    /\ temps \in [Objs -> InitTemps]
    /\ tsteps = 0
    /\ tlast = [op |-> "init", i |-> "t1", name |-> "k", value |-> 0, k0 |-> 0,
                opr |-> "add", other |-> NoOther, pre |-> temps,
                err |-> "none", raw |-> 0, hasRes |-> FALSE, res |-> 0]

\* t = Temperature(k0, **kw): the name is rebound only if construction succeeds.
New(i, k0, kw) ==
    LET r == NewTemperature(k0, kw)
    IN  /\ tsteps < MaxOps
        /\ tsteps' = tsteps + 1
        /\ temps' = IF r.ok THEN [temps EXCEPT ![i] = r.k] ELSE temps
        /\ tlast' = [op |-> "new", i |-> i, name |-> kw.name, value |-> kw.value,
                     k0 |-> k0, opr |-> "add", other |-> NoOther, pre |-> temps,
                     err |-> r.err, raw |-> r.raw, hasRes |-> r.ok, res |-> r.k]
        /\ UNCHANGED devVars

\* t.<name> = value
SetUnit(i, name, value) ==
    LET r == SetAttr(temps[i], name, value)
    IN  /\ tsteps < MaxOps
        /\ tsteps' = tsteps + 1
        /\ temps' = [temps EXCEPT ![i] = r.k]
        /\ tlast' = [op |-> "set", i |-> i, name |-> name, value |-> value,
                     k0 |-> 0, opr |-> "add", other |-> NoOther, pre |-> temps,
                     err |-> r.err, raw |-> KelvinOf(name, value),
                     hasRes |-> FALSE, res |-> 0]
        /\ UNCHANGED devVars

\* t <op> other: a new Temperature, the operands left alone.
Binary(i, op, other) ==
    LET r == BinOp(op, temps[i], other)
    IN  /\ tsteps < MaxOps
        /\ temps[i] <= MaxKelvin
        /\ OtherK(other) <= MaxKelvin
        /\ tsteps' = tsteps + 1
        /\ temps' = temps
        /\ tlast' = [op |-> "binop", i |-> i, name |-> "k", value |-> 0,
                     k0 |-> 0, opr |-> op, other |-> other, pre |-> temps,
                     err |-> r.err, raw |-> r.raw, hasRes |-> r.ok, res |-> r.k]
        /\ UNCHANGED devVars

\* t <op>= other
InPlace(i, op, other) ==
    LET r == InPlaceOp(op, temps[i], other)
    IN  /\ tsteps < MaxOps
        /\ temps[i] <= MaxKelvin
        /\ OtherK(other) <= MaxKelvin
        /\ tsteps' = tsteps + 1
        /\ temps' = [temps EXCEPT ![i] = r.k]
        /\ tlast' = [op |-> "iop", i |-> i, name |-> "k", value |-> 0,
                     k0 |-> 0, opr |-> op, other |-> other, pre |-> temps,
                     err |-> r.err, raw |-> r.raw, hasRes |-> FALSE, res |-> 0]
        /\ UNCHANGED devVars

TNext ==
    \/ \E i \in Objs, a \in CtorArgs : New(i, a.k0, a.kw)
    \/ \E i \in Objs, name \in AttrNames, value \in Numbers : SetUnit(i, name, value)
    \/ \E i \in Objs, op \in BinOps, other \in Others : Binary(i, op, other)
    \/ \E i \in Objs, op \in BinOps, other \in Others : InPlace(i, op, other)

(***************************************************************************)
(* Device values                                                           *)
(***************************************************************************)
\* A Python value: None, a number, a string, a Temperature (n is its k) or
\* a float.
None == [t |-> "None", n |-> 0, s |-> ""]
Num(n) == [t |-> "num", n |-> n, s |-> ""]
Str(s) == [t |-> "str", n |-> 0, s |-> s]
Temp(k) == [t |-> "Temperature", n |-> k, s |-> ""]
Float(n) == [t |-> "float", n |-> n, s |-> ""]
Unset == [t |-> "unset", n |-> 0, s |-> ""]

\* bool(v)
Truthy(v) ==
    CASE v.t = "None" -> FALSE
      [] v.t = "str" -> v.s # ""
      [] v.t \in {"num", "float"} -> v.n # 0
      [] OTHER -> TRUE

\* new != previous_data: Temperature.__ne__ compares Kelvin values with
\* another Temperature or a number; anything else compares by value.
DataNe_identity(new, prev) == TRUE

DataNe(new, prev) ==
    IF new.t = "Temperature"
    THEN IF prev.t \in {"Temperature", "num", "float"}
         THEN new.n # prev.n ELSE TRUE
    ELSE new # prev

Variants == {"Device", "TemperatureSensor", "RGBLED"}

BLACK == "000000"
WHITE == "FFFFFF"
Colors == {BLACK, WHITE, "FF0000"}

\* str(Color(arg)): the colour's string form.
ColorStr(arg) == arg.s

\* TemperatureSensor._parse builds Temperature(c=data); the base _parse passes
\* the raw value through.
Parse(v, raw) ==
    IF v = "TemperatureSensor"
    THEN LET r == NewTemperature(0, [name |-> "c", value |-> raw.n])
         IN  [err |-> r.err, val |-> IF r.ok THEN Temp(r.k) ELSE None]
    ELSE [err |-> "none", val |-> raw]

\* datetime.utcfromtimestamp(timestamp / 1000): whole seconds.
TsToSeconds(ts) == ts \div 1000

\* Events._fire: the listeners of the event run in registration order; one
\* that raises ends the run and the error reaches the caller.
Listeners == {"ok", "raise"}
EventKinds == {"heartbeat", "change"}

Fire(cbs, kind) ==
    LET l == cbs[kind]
        bad == {i \in 1..Len(l) : l[i] = "raise"}
    IN  [raised |-> bad # {},
         called |-> IF bad = {} THEN Len(l)
                    ELSE CHOOSE i \in bad : \A j \in bad : i <= j]

Event(kind, new, prev) == [kind |-> kind, data |-> new, prev |-> prev]

(***************************************************************************)
(* Device                                                                  *)
(***************************************************************************)
Guid == "guid-1"

\* Device.__init__: the descriptor fields kept on the device.
Info(v) ==
    [type |-> CASE v = "TemperatureSensor" -> "temperature"
                [] v = "RGBLED" -> "rgbled"
                [] OTHER -> "humidity",
     name |-> "dev",
     is_sensor |-> v # "RGBLED",
     is_actuator |-> v = "RGBLED"]

\* The device as a heartbeat call finds it, `clock` being utcnow().
Self(clock) ==
    [variant |-> variant, data |-> data, last_read |-> last_read,
     last_heartbeat |-> last_heartbeat, callbacks |-> callbacks,
     now |-> clock, origin |-> origin]

\* heartbeat, response id # 0: nothing is touched, (last_read, data) returned.
Stale(st) ==
    [data |-> st.data, last_read |-> st.last_read,
     last_heartbeat |-> st.last_heartbeat, origin |-> st.origin,
     fired |-> <<>>, err |-> "none", returned |-> TRUE]

ParseFailed_readSet(st, resp, err) ==
    [Stale(st) EXCEPT !.last_heartbeat = Num(st.now),
                      !.last_read = Num(TsToSeconds(resp.timestamp)),
                      !.origin = [st.origin EXCEPT !.last_read = st.now],
                      !.err = err, !.returned = FALSE]

\* heartbeat, _parse raised: last_heartbeat is already set, data and
\* last_read are not yet.
ParseFailed(st, resp, err) ==
    [Stale(st) EXCEPT !.last_heartbeat = Num(st.now),
                      !.err = err, !.returned = FALSE]

\* heartbeat, the events: HEARTBEAT, then CHANGE if the data differs.
Notify(st, new, silent) ==
    LET hb == Event("heartbeat", new, None)
        ch == Event("change", new, st.data)
    IN  IF silent THEN [fired |-> <<>>, err |-> "none"]
        ELSE IF Fire(st.callbacks, "heartbeat").raised
        THEN [fired |-> <<hb>>, err |-> "ListenerError"]
        ELSE IF DataNe(new, st.data)
        THEN [fired |-> <<hb, ch>>,
              err |-> IF Fire(st.callbacks, "change").raised
                      THEN "ListenerError" ELSE "none"]
        ELSE [fired |-> <<hb>>, err |-> "none"]

\* heartbeat, response id = 0.
Polled(st, silent, resp) ==
    LET p == Parse(st.variant, resp.DA)
    IN  IF p.err # "none" THEN ParseFailed(st, resp, p.err)
        ELSE LET n == Notify(st, p.val, silent)
             IN  [data |-> p.val,
                  last_read |-> Num(TsToSeconds(resp.timestamp)),
                  last_heartbeat |-> Num(st.now),
                  origin |-> [data |-> st.now, last_read |-> st.now],
                  fired |-> n.fired, err |-> n.err,
                  returned |-> n.err = "none"]

heartbeat_ignoreId(st, silent, resp) == Polled(st, silent, resp)

heartbeat(st, silent, resp) ==
    IF resp.id = 0 THEN Polled(st, silent, resp) ELSE Stale(st)

\* _dataToJSON(self) called with the positional arguments `args`.
dataToJSON(v, selfData, args) ==
    IF Len(args) # 0 THEN [err |-> "TypeError", val |-> None]
    ELSE IF v = "TemperatureSensor"
    THEN IF selfData.t = "Temperature"
         THEN [err |-> "none", val |-> Float(selfData.n)]
         ELSE [err |-> "TypeError", val |-> None]
    ELSE [err |-> "none", val |-> selfData]

NoDict ==
    [guid |-> "", type |-> "", name |-> "", is_sensor |-> FALSE,
     is_actuator |-> FALSE, data |-> None, last_heartbeat |-> None,
     last_read |-> None]

asDict(st, for_json) ==
    LET d == [guid |-> Guid, type |-> Info(st.variant).type,
              name |-> Info(st.variant).name,
              is_sensor |-> Info(st.variant).is_sensor,
              is_actuator |-> Info(st.variant).is_actuator,
              data |-> st.data, last_heartbeat |-> st.last_heartbeat,
              last_read |-> st.last_read]
        j == dataToJSON(st.variant, st.data, <<d.data>>)
    IN  IF ~for_json THEN [err |-> "none", dict |-> d]
        ELSE IF j.err # "none" THEN [err |-> j.err, dict |-> NoDict]
        ELSE [err |-> "none", dict |-> [d EXCEPT !.data = j.val]]

\* RGBLED.setColor with _last_color = lc: reading an attribute never assigned
\* raises; otherwise one PUT of {'DA': str(color)} to the device's URL.
setColor(lc, arg) ==
    IF lc = Unset
    THEN [last_color |-> lc, writes |-> <<>>, err |-> "AttributeError"]
    ELSE [last_color |-> IF Truthy(lc) THEN lc ELSE Str(WHITE),
          writes |-> <<[guid |-> Guid, DA |-> ColorStr(arg)]>>,
          err |-> "none"]

turnOn(lc) ==
    IF lc = Unset
    THEN [last_color |-> lc, writes |-> <<>>, err |-> "AttributeError"]
    ELSE setColor(lc, lc)

turnOff(d) == setColor(d, Str(BLACK))

(***************************************************************************)
(* Device operations                                                       *)
(***************************************************************************)
ResponseIds == {0, 1}
Timestamps == {1000, 2500}

\* The raw DA values the hub can report for the device.
RawValues ==
    CASE variant = "RGBLED" -> {Str(led)}
      [] variant = "TemperatureSensor" -> {Num(-30000), Num(2150), Num(2200)}
      [] OTHER -> {Num(0), Num(1)}

NoResp == [id |-> 0, DA |-> None, timestamp |-> 0]

\* Record of an operation, before its outcome is filled in.
Called(op) ==
    [op |-> op, silent |-> FALSE, for_json |-> FALSE, resp |-> NoResp,
     arg |-> None,
     pre |-> [data |-> data, last_read |-> last_read,
              last_heartbeat |-> last_heartbeat, last_color |-> last_color,
              led |-> led],
     restore |-> offColor, fired |-> <<>>, err |-> "none", returned |-> FALSE,
     ret |-> [last_read |-> None, data |-> None], dict |-> NoDict,
     writes |-> <<>>]

DIdle ==
    /\ variant = "Device"
    /\ data = None
    /\ last_read = None
    /\ last_heartbeat = None
    /\ callbacks = [k \in EventKinds |-> <<>>]
    /\ last_color = Unset
    /\ led = BLACK
    /\ now = 0
    /\ origin = [data |-> 0, last_read |-> 0]
    /\ offColor = None
    /\ dlast = [Called("init") EXCEPT !.returned = TRUE]

\* A device as Device.__init__ leaves it; the hub holds some colour for an LED.
DInit ==
    /\ variant \in Variants
    /\ data = None
    /\ last_read = None
    /\ last_heartbeat = None
    /\ callbacks = [k \in EventKinds |-> <<>>]
    /\ last_color = Unset
    /\ led \in IF variant = "RGBLED" THEN Colors ELSE {BLACK}
    /\ now = 0
    /\ origin = [data |-> 0, last_read |-> 0]
    /\ offColor = None
    /\ dlast = [Called("init") EXCEPT !.returned = TRUE]

TIdle ==
    /\ temps = [i \in Objs |-> 0]
    /\ tsteps = 0
    /\ tlast = [op |-> "init", i |-> "t1", name |-> "k", value |-> 0, k0 |-> 0,
                opr |-> "add", other |-> NoOther, pre |-> temps,
                err |-> "none", raw |-> 0, hasRes |-> FALSE, res |-> 0]

\* on(kind, callback)
On(kind, cb) ==
    /\ Len(callbacks[kind]) < MaxListeners
    /\ callbacks' = [callbacks EXCEPT ![kind] = Append(@, cb)]
    /\ dlast' = [Called("on") EXCEPT !.returned = TRUE]
    /\ UNCHANGED <<variant, data, last_read, last_heartbeat, last_color, led,
                   now, origin, offColor>>
    /\ UNCHANGED tempVars

\* heartbeat(silent), the transport answering {id, data: {DA, timestamp}}
Heartbeat(silent, id, da, ts) ==
    LET resp == [id |-> id, DA |-> da, timestamp |-> ts]
        o == heartbeat(Self(now + 1), silent, resp)
    IN  /\ now < MaxClock
        /\ now' = now + 1
        /\ data' = o.data
        /\ last_read' = o.last_read
        /\ last_heartbeat' = o.last_heartbeat
        /\ origin' = o.origin
        /\ dlast' = [Called("heartbeat") EXCEPT
                        !.silent = silent, !.resp = resp, !.fired = o.fired,
                        !.err = o.err, !.returned = o.returned,
                        !.ret = IF o.returned
                                THEN [last_read |-> o.last_read, data |-> o.data]
                                ELSE @]
        /\ UNCHANGED <<variant, callbacks, last_color, led, offColor>>
        /\ UNCHANGED tempVars

\* asDict(for_json)
AsDict(for_json) ==
    LET o == asDict(Self(now), for_json)
    IN  /\ dlast' = [Called("asDict") EXCEPT
                        !.for_json = for_json, !.err = o.err,
                        !.returned = o.err = "none", !.dict = o.dict]
        /\ UNCHANGED <<variant, data, last_read, last_heartbeat, callbacks,
                       last_color, led, now, origin, offColor>>
        /\ UNCHANGED tempVars

\* The hub takes the colour of a PUT.
Written(o) == IF o.writes = <<>> THEN led ELSE o.writes[Len(o.writes)].DA

\* RGBLED.setColor(color)
SetColor(c) ==
    LET o == setColor(last_color, Str(c))
    IN  /\ variant = "RGBLED"
        /\ last_color' = o.last_color
        /\ led' = Written(o)
        /\ offColor' = IF o.err = "none" THEN None ELSE offColor
        /\ dlast' = [Called("setColor") EXCEPT
                        !.arg = Str(c), !.err = o.err, !.writes = o.writes,
                        !.returned = o.err = "none"]
        /\ UNCHANGED <<variant, data, last_read, last_heartbeat, callbacks,
                       now, origin>>
        /\ UNCHANGED tempVars

\* RGBLED.turnOn()
TurnOn ==
    LET o == turnOn(last_color)
    IN  /\ variant = "RGBLED"
        /\ last_color' = o.last_color
        /\ led' = Written(o)
        /\ offColor' = IF o.err = "none" THEN None ELSE offColor
        /\ dlast' = [Called("turnOn") EXCEPT
                        !.err = o.err, !.writes = o.writes,
                        !.returned = o.err = "none"]
        /\ UNCHANGED <<variant, data, last_read, last_heartbeat, callbacks,
                       now, origin>>
        /\ UNCHANGED tempVars

\* RGBLED.turnOff()
TurnOff ==
    LET o == turnOff(data)
    IN  /\ variant = "RGBLED"
        /\ last_color' = o.last_color
        /\ led' = Written(o)
        /\ offColor' = IF offColor = None /\ led # BLACK /\ data = Str(led)
                       THEN Str(led) ELSE offColor
        /\ dlast' = [Called("turnOff") EXCEPT
                        !.err = o.err, !.writes = o.writes,
                        !.returned = o.err = "none"]
        /\ UNCHANGED <<variant, data, last_read, last_heartbeat, callbacks,
                       now, origin>>
        /\ UNCHANGED tempVars

DNext ==
    \/ \E kind \in EventKinds, cb \in Listeners : On(kind, cb)
    \/ \E silent \in BOOLEAN, id \in ResponseIds, da \in RawValues,
          ts \in Timestamps : Heartbeat(silent, id, da, ts)
    \/ \E for_json \in BOOLEAN : AsDict(for_json)
    \/ \E c \in Colors : SetColor(c)
    \/ TurnOn
    \/ TurnOff

(***************************************************************************)
(* Specifications                                                          *)
(***************************************************************************)
Init == DInit /\ TIdle
Next == DNext
Spec == Init /\ [][Next]_vars

InitTemp == TInit /\ DIdle
NextTemp == TNext
SpecTemp == InitTemp /\ [][NextTemp]_vars

(***************************************************************************)
(* Properties of Device.heartbeat                                          *)
(***************************************************************************)
HeartbeatEvent == Event("heartbeat", data, None)
ChangeEvent == Event("change", data, dlast.pre.data)

\* The reading of the last poll does not parse: a TemperatureSensor is told
\* a Celsius value below absolute zero.
ReadingInvalid ==
    variant = "TemperatureSensor" /\ dlast.resp.DA.n < -27315

HeartbeatListenerRaises ==
    \E i \in DOMAIN callbacks["heartbeat"] : callbacks["heartbeat"][i] = "raise"

\* C1: a heartbeat answered with a non-zero id changes none of data,
\* last_read, last_heartbeat, fires no event, raises nothing and returns the
\* (last_read, data) pair held before the call.
C1_StalePollChangesNothing ==
    (dlast.op = "heartbeat" /\ dlast.resp.id # 0) =>
        /\ data = dlast.pre.data
        /\ last_read = dlast.pre.last_read
        /\ last_heartbeat = dlast.pre.last_heartbeat
        /\ dlast.fired = <<>>
        /\ dlast.err = "none"
        /\ dlast.returned
        /\ dlast.ret = [last_read |-> dlast.pre.last_read,
                        data |-> dlast.pre.data]

\* C1 witness: a non-silent poll with listeners registered is answered with
\* a non-zero id after an earlier poll had stored a reading.
C1_Witness ==
    /\ dlast.op = "heartbeat"
    /\ dlast.resp.id # 0
    /\ ~dlast.silent
    /\ dlast.pre.data # None
    /\ callbacks["heartbeat"] # <<>>
    /\ dlast.resp.DA # dlast.pre.data

\* C2 as stated: every poll with id = 0 and silent = false fires HEARTBEAT
\* once with the new data, then CHANGE with (new, previous) iff the parsed
\* data differs by value from the data held before; a silent poll fires
\* nothing; nothing is fired outside heartbeat.
C2_AsStated ==
    /\ dlast.op # "heartbeat" => dlast.fired = <<>>
    /\ (dlast.op = "heartbeat" /\ dlast.resp.id = 0) =>
          dlast.fired =
             IF dlast.silent THEN <<>>
             ELSE IF data # dlast.pre.data
             THEN <<HeartbeatEvent, ChangeEvent>>
             ELSE <<HeartbeatEvent>>

\* C2 amended: a poll with id = 0 and silent = false whose reading parses
\* fires HEARTBEAT once with the new data, then CHANGE with (new, previous)
\* iff the data differs by value and no HEARTBEAT listener raised; a poll
\* that is silent, has a non-zero id or whose reading does not parse fires
\* nothing; nothing is fired outside heartbeat.
C2_EventsOfAPoll ==
    /\ dlast.op # "heartbeat" => dlast.fired = <<>>
    /\ dlast.op = "heartbeat" =>
          dlast.fired =
             IF dlast.silent \/ dlast.resp.id # 0 \/ ReadingInvalid THEN <<>>
             ELSE IF data # dlast.pre.data /\ ~HeartbeatListenerRaises
             THEN <<HeartbeatEvent, ChangeEvent>>
             ELSE <<HeartbeatEvent>>

\* C2 witness: a TemperatureSensor polled a second time reads the same
\* temperature, and HEARTBEAT alone is fired.
C2_Witness ==
    /\ dlast.op = "heartbeat"
    /\ dlast.resp.id = 0
    /\ ~dlast.silent
    /\ variant = "TemperatureSensor"
    /\ dlast.pre.data # None
    /\ data = dlast.pre.data
    /\ dlast.fired = <<HeartbeatEvent>>

C6_AsDictForJson ==
    (/\ dlast.op = "asDict"
     /\ dlast.for_json
     /\ variant \in {"TemperatureSensor", "Device"}
     /\ data # None) =>
        /\ dlast.err = "none"
        /\ dlast.dict =
             [guid |-> Guid, type |-> Info(variant).type,
              name |-> Info(variant).name,
              is_sensor |-> Info(variant).is_sensor,
              is_actuator |-> Info(variant).is_actuator,
              data |-> IF variant = "TemperatureSensor"
                       THEN Float(data.n) ELSE data,
              last_heartbeat |-> last_heartbeat, last_read |-> last_read]

\* C9: turnOn after turnOff writes the colour the lit LED had, as the device
\* knew it, when it was first turned off, whatever heartbeats and further
\* turnOff calls came in between; it never writes black.
C9_TurnOnRestores ==
    (dlast.op = "turnOn" /\ dlast.restore # None) =>
        /\ dlast.err = "none"
        /\ dlast.writes = <<[guid |-> Guid, DA |-> dlast.restore.s]>>
        /\ led # BLACK

\* C10: setColor, in every state of an RGBLED, makes exactly one write of
\* {DA: str(color)} for the device's guid, raises nothing and leaves data,
\* last_read and last_heartbeat alone.
C10_SetColorWritesOnce ==
    dlast.op = "setColor" =>
        /\ dlast.err = "none"
        /\ dlast.writes = <<[guid |-> Guid, DA |-> dlast.arg.s]>>
        /\ data = dlast.pre.data
        /\ last_read = dlast.pre.last_read
        /\ last_heartbeat = dlast.pre.last_heartbeat

(***************************************************************************)
(* Properties of Temperature                                               *)
(***************************************************************************)
Mutations == {"new", "set", "binop", "iop"}

\* C4: the stored Kelvin value of every Temperature, a freshly returned one
\* included, is >= 0 in every state, the states after a failed operation
\* included.
C4_KelvinNeverNegative ==
    /\ \A i \in Objs : temps[i] >= 0
    /\ tlast.hasRes => tlast.res >= 0

\* C4 witness: an in-place operation on a Temperature above 0 K failed.
C4_Witness ==
    /\ tlast.op = "iop"
    /\ tlast.err = "ValueError"
    /\ tlast.pre[tlast.i] > 0
    /\ tlast.raw < 0

\* C5: a mutation whose Kelvin result would be below 0 fails with the
\* invalid-temperature error; a construction or binary operation then yields
\* no object and touches none, a write or in-place operation leaves the
\* object written at k = 0 and the others alone.
C5_NegativeResultFails ==
    (tlast.op \in Mutations /\ tlast.raw < 0) =>
        /\ tlast.err = "ValueError"
        /\ ~tlast.hasRes
        /\ \A j \in Objs \ {tlast.i} : temps[j] = tlast.pre[j]
        /\ temps[tlast.i] =
              IF tlast.op \in {"set", "iop"} THEN 0 ELSE tlast.pre[tlast.i]

\* C5 witness: a Celsius write below absolute zero on a Temperature that was
\* above 0 K.
C5_Witness ==
    /\ tlast.op = "set"
    /\ tlast.name = "c"
    /\ tlast.err = "ValueError"
    /\ tlast.pre[tlast.i] > 0
    /\ temps[tlast.i] = 0

\* The table of the specification: unit -> scale, shift_in, shift_out.
UnitTable ==
    [c |-> [scale |-> 100, shift_in |-> 0, shift_out |-> -27315],
     f |-> [scale |-> 180, shift_in |-> -27315, shift_out |-> 3200],
     r |-> [scale |-> 180, shift_in |-> 0, shift_out |-> 0]]

Distance(x, y) == IF x < y THEN y - x ELSE x - y

\* C7: after Temperature(u=v) or t.u = v succeeds for a unit u of c, f, r,
\* the stored k is (v - shift_out) / scale - shift_in and reading u back
\* gives v to within one unit in the last decimal place.
C7_UnitRoundTrip ==
    (/\ tlast.op \in {"new", "set"}
     /\ tlast.name \in {"c", "f", "r"}
     /\ tlast.err = "none") =>
        LET u == UnitTable[tlast.name]
            k == temps[tlast.i]
        IN  /\ k = RoundHalfEven((tlast.value - u.shift_out) * Unit, u.scale)
                     - u.shift_in
            /\ Distance(GetAttr(k, tlast.name), tlast.value) <= 1

\* C7 witness: 32.06 F is written and read back as 32.05 F.
C7_Witness ==
    /\ tlast.op = "set"
    /\ tlast.name = "f"
    /\ tlast.value = 3206
    /\ tlast.err = "none"
    /\ GetAttr(temps[tlast.i], "f") = 3205

\* C8: a - b, b a Temperature or a bare number of Kelvin, leaves a and b as
\* they were; it returns a new Temperature with k = a.k - b.k when
\* a.k >= b.k and fails with the invalid-temperature error when a.k < b.k.
C8_SubtractionByKelvin ==
    (tlast.op = "binop" /\ tlast.opr = "sub") =>
        LET a == tlast.pre[tlast.i]
            b == IF tlast.other.isTemp THEN tlast.other.k ELSE tlast.other.n
        IN  /\ temps = tlast.pre
            /\ IF a >= b
               THEN tlast.err = "none" /\ tlast.hasRes /\ tlast.res = a - b
               ELSE tlast.err = "ValueError" /\ ~tlast.hasRes

\* C8 witness: t2 - t1 with t1 = 40 K and t2 = 212 F is 333.15 K.
C8_Witness ==
    /\ tlast.op = "binop"
    /\ tlast.opr = "sub"
    /\ tlast.i = "t2"
    /\ tlast.pre["t1"] = 4000
    /\ tlast.pre["t2"] = NewTemperature(0, [name |-> "f", value |-> 21200]).k
    /\ tlast.other = [isTemp |-> TRUE, k |-> 4000, n |-> 0]
    /\ tlast.hasRes
    /\ tlast.res = 33315

====
